---- MODULE Spec2Model ----
(***************************************************************************)
(* A model of corekinect.py, the client of the CoreKinect REST service.    *)
(*                                                                         *)
(* Every function of the module builds one request, hands it to the HTTP   *)
(* library, waits for the response, inspects it and returns or raises.     *)
(* A call is modelled in two steps, split where the function blocks in the *)
(* HTTP library: <op>(c) builds and sends the request of call site c,      *)
(* <op>_done(c, n) runs the rest of the function on the response.  The     *)
(* remote service is the environment: it answers with any status and body  *)
(* of a bounded set (Spec, SpecConc), or as a service that authenticates   *)
(* by the Authorization header (SpecSvc).                                  *)
(*                                                                         *)
(* The request is modelled as the arguments handed to requests.get/post/   *)
(* delete (url, params, headers, auth), not as the query string the        *)
(* library encodes from params.  'Bearer {}'.format(token) is the pair     *)
(* <<"Bearer", token>>, base + path is the pair <<base, path>>.            *)
(***************************************************************************)
EXTENDS Integers, Sequences, FiniteSets, TLC

\* Longest list a caller passes and longest list a response carries.
MaxLen == 2

\* The call sites that may have a call in progress at the same time.
Callers == {"c1", "c2"}

Tokens == {"t1", "t2"}
DeviceIds == {"d1", "d2"}
ActivationCodes == {"a1", "a2"}
EndpointIds == {"e1", "e2"}
Urls == {"u1"}
AuthUrls == {"au1"}
ClientIds == {"id1"}
ClientSecrets == {"s1", "s2"}
StatusCodes == {200, 401}

BaseUrl == "https://api.corekinect.cloud:3000"

SeqsUpTo(S, n) == UNION {[1..k -> S] : k \in 0..n}

(***************************************************************************)
(* Python values.  A value carries its type in t and its content in a      *)
(* field named after the type, so that values of different types never     *)
(* share a field.  A dict is a function from its keys; a list a sequence.  *)
(***************************************************************************)
PyNone == [t |-> "None"]
PyStr(s) == [t |-> "str", s |-> s]
PyList(l) == [t |-> "list", l |-> l]
PyDict(d) == [t |-> "dict", d |-> d]

\* bool(x) is False
Falsy(j) ==
    CASE j.t = "None" -> TRUE
      [] j.t = "str" -> j.s = ""
      [] j.t = "list" -> j.l = <<>>
      [] j.t = "dict" -> DOMAIN j.d = {}

\* key in j, for j a dict or a list of dicts (no dict equals a string)
Contains(key, j) ==
    CASE j.t = "dict" -> key \in DOMAIN j.d
      [] j.t = "list" -> FALSE
      [] OTHER -> FALSE

\* key in j raises TypeError: None is not iterable
ContainsRaises(j) == j.t = "None"

(***************************************************************************)
(* The outcome of a call, as its caller sees it: a returned value, or an   *)
(* exception with its class and argument.                                  *)
(***************************************************************************)
Returned(v) == [kind |-> "returned", exc |-> "none", arg |-> "none", value |-> v]
Raised(e, a) == [kind |-> "raised", exc |-> e, arg |-> a, value |-> PyNone]
NoOutcome == [kind |-> "none", exc |-> "none", arg |-> "none", value |-> PyNone]

\* j[key]: the value, or the exception the subscription raises
IndexRaises(j, key) ==
    CASE j.t = "dict" -> key \notin DOMAIN j.d
      [] OTHER -> TRUE

IndexError(j, key) ==
    IF j.t = "dict" THEN Raised("KeyError", key) ELSE Raised("TypeError", "subscript")

(***************************************************************************)
(* Responses.  The body is empty, text that is no JSON, or JSON.           *)
(* response.json() raises a ValueError (JSONDecodeError) on the first two. *)
(* bool(response) is response.ok: the status is below 400.                 *)
(***************************************************************************)
BodyEmpty == [t |-> "empty"]
BodyInvalid == [t |-> "invalid"]
BodyJson(j) == [t |-> "json", j |-> j]

Response(s, b) == [status_code |-> s, body |-> b]
NoResponse == [status_code |-> 0, body |-> [t |-> "none"]]

HasJson(r) == r.body.t = "json"
ResponseOk(r) == r.status_code < 400
JsonError == Raised("ValueError", "JSONDecodeError")

(***************************************************************************)
(* State.  base is the module-level base URL; the rest is the frame of the *)
(* call in progress at each call site.                                     *)
(***************************************************************************)
VARIABLES
    base,       \* the module global base (line 6)
    pc,         \* per call site: "idle", "sent" (blocked in the HTTP library), "done"
    op,         \* per call site: the function called
    args,       \* per call site: the arguments of the call
    req,        \* per call site: the request handed to the HTTP library
    nSent,      \* per call site: requests issued by the call so far
    resp,       \* per call site: the response the call received
    outcome,    \* per call site: what the call returned or raised
    log,        \* per call site: the logging.error messages of the call
    svcEndpoints \* the endpoints the remote service holds (SpecSvc)

vars == <<base, pc, op, args, req, nSent, resp, outcome, log, svcEndpoints>>

NoArgs == <<>>
NoRequest == [method |-> "none", url |-> <<>>, params |-> <<>>, headers |-> <<>>, auth |-> <<>>]

Bearer(token) == <<"Bearer", token>>

(***************************************************************************)
(* The request each function builds.                                       *)
(***************************************************************************)
print_version_request ==
    [method |-> "GET", url |-> <<base, "/account/GetVersion">>,
     params |-> <<>>, headers |-> <<>>, auth |-> <<>>]

get_token_request(a) ==
    [method |-> "GET", url |-> <<base, "/auth/RequestToken">>,
     params |-> [grant_type |-> "client_credentials",
                 client_id |-> a.client_id,
                 client_secret |-> a.client_secret]
                @@ ("content-type" :> "application/x-www-form-urlencoded"),
     headers |-> <<>>, auth |-> <<"user", "pass">>]

\* The comprehension of line 53 reads new_acs[i] for every index of new_ids.
dev_code_pairs_raises(a) == Len(a.new_acs) < Len(a.new_ids)

\* dev_code_pairs with the activation codes taken from the end of new_acs.
dev_code_pairs_reversed(a) ==
    [Authorization |-> Bearer(a.token),
     devices |-> [i \in 1..Len(a.new_ids) |->
                     [DeviceId |-> a.new_ids[i],
                      ActivationCode |-> a.new_acs[Len(a.new_acs) + 1 - i]]]]

dev_code_pairs(a) ==
    [Authorization |-> Bearer(a.token),
     devices |-> [i \in 1..Len(a.new_ids) |->
                     [DeviceId |-> a.new_ids[i], ActivationCode |-> a.new_acs[i]]]]

add_devices_request(a) ==
    [method |-> "POST", url |-> <<base, "/account/AddDevices">>,
     params |-> dev_code_pairs(a), headers |-> <<>>, auth |-> <<>>]

create_endpoint_request(a) ==
    [method |-> "POST", url |-> <<base, "/account/CreateEndpoint">>,
     params |-> [URL |-> a.devv_url, Authorization |-> Bearer(a.token)],
     headers |-> <<>>, auth |-> <<>>]

create_oauth_endpoint_request(a) ==
    [method |-> "POST", url |-> <<base, "/account/CreateEndpoint">>,
     params |-> [URL |-> a.devv_url, AuthUrl |-> a.auth_url,
                 Authorization |-> Bearer(a.token),
                 AuthTokenType |-> a.AuthTokenType, AuthTokenKey |-> a.AuthTokenKey],
     headers |-> <<>>, auth |-> <<>>]

dev_params(a) ==
    [EndpointId |-> a.endpoint_id,
     Devices |-> [i \in 1..Len(a.device_ids) |-> [DeviceId |-> a.device_ids[i]]]]

assign_to_endpoint_request(a) ==
    [method |-> "POST", url |-> <<base, "/account/AssignDevicesToEndpoint">>,
     params |-> dev_params(a),
     headers |-> [Authorization |-> Bearer(a.token)], auth |-> <<>>]

delete_from_endpoint_request(a) ==
    [method |-> "DELETE", url |-> <<base, "/account/DeleteDevicesFromEndpoint">>,
     params |-> dev_params(a),
     headers |-> [Authorization |-> Bearer(a.token)], auth |-> <<>>]

delete_endpoints_request(a) ==
    [method |-> "DELETE", url |-> <<base, "/account/DeleteEndpoints">>,
     params |-> [Endpoints |-> [i \in 1..Len(a.kill_points) |->
                                   [EndpointId |-> a.kill_points[i]]]],
     headers |-> [Authorization |-> Bearer(a.token)], auth |-> <<>>]

\* getter_request with the token kept in a module global that the call
\* entered last has set.
getter_request_global(path, a) ==
    LET others == {d \in Callers : pc[d] # "idle" /\ "token" \in DOMAIN args[d]}
        token == IF others = {} THEN a.token ELSE args[CHOOSE d \in others : TRUE].token
    IN [method |-> "GET", url |-> <<base, path>>, params |-> <<>>,
        headers |-> [Authorization |-> Bearer(token)], auth |-> <<>>]

\* The five getters differ in their path only.
getter_request(path, a) ==
    [method |-> "GET", url |-> <<base, path>>, params |-> <<>>,
     headers |-> [Authorization |-> Bearer(a.token)], auth |-> <<>>]

get_endpoints_request(a) == getter_request("/account/GetEndpoints/", a)
get_devices_request(a) == getter_request("/account/GetDevices/", a)
get_devices_by_location_request(a) == getter_request("/account/GetDevicesByLocation/", a)
get_locations_request(a) == getter_request("/account/GetLocations/", a)
get_location_reports_request(a) == getter_request("/account/GetLocationReports", a)

(***************************************************************************)
(* What each function does with the response: the messages it logs with    *)
(* logging.error and the value it returns or the exception it raises.      *)
(***************************************************************************)
Result(l, o) == [log |-> l, outcome |-> o]

\* if not x.json(): logging.error(m1)
\* if k not in x.json(): logging.error(m2)
\* ok is FALSE when one of the two statements raises.
JsonChecks(r, m1, k, m2) ==
    IF ~HasJson(r) THEN [ok |-> FALSE, log |-> <<>>, outcome |-> JsonError]
    ELSE LET j == r.body.j
             log1 == IF Falsy(j) THEN <<m1>> ELSE <<>>
         IN IF ContainsRaises(j)
            THEN [ok |-> FALSE, log |-> log1, outcome |-> Raised("TypeError", "in")]
            ELSE [ok |-> TRUE,
                  log |-> IF Contains(k, j) THEN log1 ELSE Append(log1, m2),
                  outcome |-> NoOutcome]

\* [d[key] for d in l] raises KeyError when an element has no such key
LacksKey(l, key) == \E i \in 1..Len(l) : key \notin DOMAIN l[i]
Column(l, key) == [i \in 1..Len(l) |-> l[i][key]]

\* passed = [d[ek] for d in x.json()[k]]; return passed
ReturnColumn(chk, r, k, ek) ==
    IF ~chk.ok THEN Result(chk.log, chk.outcome)
    ELSE LET j == r.body.j
         IN IF IndexRaises(j, k) THEN Result(chk.log, IndexError(j, k))
            ELSE IF LacksKey(j.d[k], ek) THEN Result(chk.log, Raised("KeyError", ek))
            ELSE Result(chk.log, Returned(PyList(Column(j.d[k], ek))))

print_version_result(r) ==
    LET log1 == IF ~ResponseOk(r) THEN <<"No json data received in print_version()">>
                ELSE <<>>
    IN IF ~HasJson(r) THEN Result(log1, JsonError)
       ELSE IF IndexRaises(r.body.j, "Version")
            THEN Result(log1, IndexError(r.body.j, "Version"))
            ELSE Result(log1, Returned(PyNone))

get_token_result(r) ==
    LET chk == JsonChecks(r, "No json data received in get_token()",
                          "access_token", "No token received")
    IN IF ~chk.ok THEN Result(chk.log, chk.outcome)
       ELSE IF IndexRaises(r.body.j, "access_token")
            THEN Result(chk.log, IndexError(r.body.j, "access_token"))
            ELSE Result(chk.log, Returned(PyStr(r.body.j.d["access_token"])))

\* add_devices_result with the comprehension stopping one entry early.
add_devices_result_short(r) ==
    LET chk == JsonChecks(r, "No json data received in add_devices()",
                          "DevicesPassed", "Failed to add any devices")
    IN IF ~chk.ok THEN Result(chk.log, chk.outcome)
       ELSE IF IndexRaises(r.body.j, "DevicesPassed")
            THEN Result(chk.log, IndexError(r.body.j, "DevicesPassed"))
            ELSE LET l == r.body.j.d["DevicesPassed"]
                 IN IF LacksKey(l, "DeviceId") THEN Result(chk.log, Raised("KeyError", "DeviceId"))
                    ELSE Result(chk.log,
                                Returned(PyList(Column(SubSeq(l, 1, Len(l) - 1), "DeviceId"))))

add_devices_result(r) ==
    ReturnColumn(JsonChecks(r, "No json data received in add_devices()",
                            "DevicesPassed", "Failed to add any devices"),
                 r, "DevicesPassed", "DeviceId")

create_endpoint_result(r) ==
    LET chk == JsonChecks(r, "No json data received in create_endpoint()", "EndpointId",
                          "EndpointId is missing from json response in create_endpoint()")
    IN IF ~chk.ok THEN Result(chk.log, chk.outcome)
       ELSE IF IndexRaises(r.body.j, "EndpointId")
            THEN Result(chk.log, IndexError(r.body.j, "EndpointId"))
            ELSE Result(chk.log, Returned(r.body.j))

\* The message logged when EndpointId is missing depends on EndpointError.
oauth_missing_message(r) ==
    IF HasJson(r) /\ Contains("EndpointError", r.body.j)
    THEN "Failed to get a token from AuthUrl with given parameters, response from AuthUrl was 400"
    ELSE "EndpointId is missing from json response in create_oauth_endpoint()"

create_oauth_endpoint_result(r) ==
    LET chk == JsonChecks(r, "No json data received in create_endpoint()", "EndpointId",
                          oauth_missing_message(r))
    IN IF ~chk.ok THEN Result(chk.log, chk.outcome)
       ELSE IF IndexRaises(r.body.j, "EndpointId")
            THEN Result(chk.log, IndexError(r.body.j, "EndpointId"))
            ELSE Result(chk.log, Returned(r.body.j))

assign_to_endpoint_result(r) ==
    ReturnColumn(JsonChecks(r, "No json data received in assign_to_endpoint()",
                            "DevicePassed", "Failed to assign devices to endpoint"),
                 r, "DevicePassed", "DeviceId")

delete_from_endpoint_result(r) ==
    ReturnColumn(JsonChecks(r, "No json data received in delete_from_endpoint()",
                            "DevicePassed", "Failed to delete (devices not found)"),
                 r, "DevicePassed", "DeviceId")

delete_endpoints_result(r) ==
    ReturnColumn(JsonChecks(r, "No json data received in delete_endpoints()",
                            "EndpointsDeleted", "Endpoints not found"),
                 r, "EndpointsDeleted", "EndpointId")

\* Tests "EndpointId" but reads "Endpoints"; every entry is a dict (entry.values()).
get_endpoints_result(r) ==
    LET chk == JsonChecks(r, "No json data received in get_endpoints()", "EndpointId",
                          "Endpoints are missing from json response in get_endpoints()")
    IN IF ~chk.ok THEN Result(chk.log, chk.outcome)
       ELSE IF IndexRaises(r.body.j, "Endpoints")
            THEN Result(chk.log, IndexError(r.body.j, "Endpoints"))
            ELSE Result(chk.log, Returned(PyList(r.body.j.d["Endpoints"])))

(***************************************************************************)
(* The last four getters test and iterate the Response object itself, not  *)
(* its JSON.  Iterating a Response yields the chunks of its body, which    *)
(* are bytes: no chunk equals a str, so `key not in response` holds; a     *)
(* Response has no subscription; and a chunk subscripted with a str raises *)
(* TypeError.  An empty body has no chunks.                                *)
(***************************************************************************)
ResponseLog(r, m) == IF ~ResponseOk(r) THEN <<m>> ELSE <<>>
HasChunks(r) == r.body.t # "empty"

get_devices_result(r) ==
    Result(Append(ResponseLog(r, "No json data received in get_devices()"),
                  "No devices found"),
           Raised("TypeError", "subscript"))

\* [entry["LocationName"] for entry in response]; return response.json()
ChunksThenJson(l, r) ==
    IF HasChunks(r) THEN Result(l, Raised("TypeError", "subscript"))
    ELSE Result(l, JsonError)

get_devices_by_location_result(r) ==
    ChunksThenJson(Append(ResponseLog(r, "No json data received in get_devices_by_location()"),
                          "No devices found"), r)

get_locations_result(r) ==
    ChunksThenJson(ResponseLog(r, "No json data received in get_locations()"), r)

get_location_reports_result(r) ==
    ChunksThenJson(ResponseLog(r, "No json data received in get_location_reports"), r)

(***************************************************************************)
(* The responses the service may give: any status with an empty body, a    *)
(* body that is no JSON, JSON null, a JSON list, or a JSON object with or  *)
(* without the key the function reads.  Lists have at most n elements.     *)
(***************************************************************************)
ListKeyOps == {"add_devices", "assign_to_endpoint", "delete_from_endpoint",
               "delete_endpoints", "get_endpoints", "get_devices"}
LocationOps == {"get_devices_by_location", "get_locations", "get_location_reports"}

\* The top-level key of the response each function reads.
ExpectedKey(o) ==
    CASE o = "print_version" -> "Version"
      [] o = "get_token" -> "access_token"
      [] o = "add_devices" -> "DevicesPassed"
      [] o \in {"create_endpoint", "create_oauth_endpoint"} -> "EndpointId"
      [] o \in {"assign_to_endpoint", "delete_from_endpoint"} -> "DevicePassed"
      [] o = "delete_endpoints" -> "EndpointsDeleted"
      [] o = "get_endpoints" -> "Endpoints"
      [] o = "get_devices" -> "Devices"
      [] OTHER -> "none"

BadElem == [Other |-> "x"]

Elems(o) ==
    CASE o \in {"add_devices", "assign_to_endpoint", "delete_from_endpoint"} ->
            {[DeviceId |-> d] : d \in DeviceIds} \cup {BadElem}
      [] o = "delete_endpoints" ->
            {[EndpointId |-> e] : e \in EndpointIds} \cup {BadElem}
      [] o = "get_endpoints" ->
            {[EndpointId |-> e, URL |-> "u1", DataType |-> "json"] : e \in EndpointIds}
            \cup {BadElem}
      [] o = "get_devices" ->
            {[DeviceId |-> d, DeviceType |-> "tag", Endpoints |-> <<>>] : d \in DeviceIds}
            \cup {BadElem}
      [] o \in LocationOps -> {[LocationName |-> "loc1"], BadElem}
      [] OTHER -> {BadElem}

Payloads(o, n) ==
    CASE o = "print_version" -> {[Version |-> "1.0"]}
      [] o = "get_token" -> {[access_token |-> t] : t \in Tokens}
      [] o \in {"create_endpoint", "create_oauth_endpoint"} ->
            {[EndpointId |-> e, URL |-> u] : e \in EndpointIds, u \in Urls}
      [] o \in ListKeyOps -> {ExpectedKey(o) :> l : l \in SeqsUpTo(Elems(o), n)}
      [] OTHER -> {}

Extras(o) ==
    {<<>>, [error |-> "x"]}
    \cup (IF o = "create_oauth_endpoint" THEN {[EndpointError |-> "400"]} ELSE {})
    \cup (IF o = "get_endpoints" THEN {[EndpointId |-> "e1"]} ELSE {})

Dicts(o, n) == {p @@ x : p \in Payloads(o, n) \cup {<<>>}, x \in Extras(o)}

Bodies(o, n) ==
    {BodyEmpty, BodyInvalid, BodyJson(PyNone)}
    \cup {BodyJson(PyList(l)) : l \in SeqsUpTo(Elems(o), n)}
    \cup {BodyJson(PyDict(d)) : d \in Dicts(o, n)}

Responses(o, n) == {Response(s, b) : s \in StatusCodes, b \in Bodies(o, n)}

(***************************************************************************)
(* Steps of a call.                                                        *)
(***************************************************************************)
Init ==
    /\ base = BaseUrl
    /\ pc = [c \in Callers |-> "idle"]
    /\ op = [c \in Callers |-> "none"]
    /\ args = [c \in Callers |-> NoArgs]
    /\ req = [c \in Callers |-> NoRequest]
    /\ nSent = [c \in Callers |-> 0]
    /\ resp = [c \in Callers |-> NoResponse]
    /\ outcome = [c \in Callers |-> NoOutcome]
    /\ log = [c \in Callers |-> <<>>]
    /\ svcEndpoints = {}

\* The function is entered with arguments a and blocks in requests.<method>(r).
Send(c, o, a, r) ==
    /\ pc' = [pc EXCEPT ![c] = "sent"]
    /\ op' = [op EXCEPT ![c] = o]
    /\ args' = [args EXCEPT ![c] = a]
    /\ req' = [req EXCEPT ![c] = r]
    /\ nSent' = [nSent EXCEPT ![c] = @ + 1]
    /\ UNCHANGED <<base, resp, outcome, log, svcEndpoints>>

\* The function is entered with arguments a and raises before any request.
FailBeforeSend(c, o, a, e) ==
    /\ pc' = [pc EXCEPT ![c] = "done"]
    /\ op' = [op EXCEPT ![c] = o]
    /\ args' = [args EXCEPT ![c] = a]
    /\ outcome' = [outcome EXCEPT ![c] = e]
    /\ UNCHANGED <<base, req, nSent, resp, log, svcEndpoints>>

\* Call site c is blocked in the HTTP library, inside function o.
Waiting(c, o) == pc[c] = "sent" /\ op[c] = o

\* Finish with the request sent once more when the lookup raises KeyError.
FinishRetry(c, r, res) ==
    IF res.outcome.exc = "KeyError" /\ nSent[c] < 2
    THEN /\ nSent' = [nSent EXCEPT ![c] = @ + 1]
         /\ UNCHANGED <<base, pc, op, args, req, resp, outcome, log>>
    ELSE /\ pc' = [pc EXCEPT ![c] = "done"]
         /\ resp' = [resp EXCEPT ![c] = r]
         /\ outcome' = [outcome EXCEPT ![c] = res.outcome]
         /\ log' = [log EXCEPT ![c] = res.log]
         /\ UNCHANGED <<base, op, args, req, nSent>>

\* The HTTP library returns response r and the function runs to its end.
Finish(c, r, res) ==
    /\ pc' = [pc EXCEPT ![c] = "done"]
    /\ resp' = [resp EXCEPT ![c] = r]
    /\ outcome' = [outcome EXCEPT ![c] = res.outcome]
    /\ log' = [log EXCEPT ![c] = res.log]
    /\ UNCHANGED <<base, op, args, req, nSent>>

print_version(c) ==
    /\ pc[c] = "idle"
    /\ Send(c, "print_version", NoArgs, print_version_request)

get_token(c) ==
    /\ pc[c] = "idle"
    /\ \E id \in ClientIds, secret \in ClientSecrets :
           LET a == [client_id |-> id, client_secret |-> secret]
           IN Send(c, "get_token", a, get_token_request(a))

add_devices(c, n) ==
    /\ pc[c] = "idle"
    /\ \E ids \in SeqsUpTo(DeviceIds, n), acs \in SeqsUpTo(ActivationCodes, n), t \in Tokens :
           LET a == [new_ids |-> ids, new_acs |-> acs, token |-> t]
           IN IF dev_code_pairs_raises(a)
              THEN FailBeforeSend(c, "add_devices", a, Raised("IndexError", "new_acs"))
              ELSE Send(c, "add_devices", a, add_devices_request(a))

create_endpoint(c) ==
    /\ pc[c] = "idle"
    /\ \E t \in Tokens, u \in Urls :
           LET a == [token |-> t, devv_url |-> u]
           IN Send(c, "create_endpoint", a, create_endpoint_request(a))

create_oauth_endpoint(c) ==
    /\ pc[c] = "idle"
    /\ \E t \in Tokens, u \in Urls, au \in AuthUrls :
           LET a == [devv_url |-> u, auth_url |-> au, token |-> t,
                     AuthTokenType |-> "Bearer", AuthTokenKey |-> "access_token"]
           IN Send(c, "create_oauth_endpoint", a, create_oauth_endpoint_request(a))

assign_to_endpoint(c, n) ==
    /\ pc[c] = "idle"
    /\ \E ids \in SeqsUpTo(DeviceIds, n), e \in EndpointIds, t \in Tokens :
           LET a == [device_ids |-> ids, endpoint_id |-> e, token |-> t]
           IN Send(c, "assign_to_endpoint", a, assign_to_endpoint_request(a))

delete_from_endpoint(c, n) ==
    /\ pc[c] = "idle"
    /\ \E ids \in SeqsUpTo(DeviceIds, n), e \in EndpointIds, t \in Tokens :
           LET a == [device_ids |-> ids, endpoint_id |-> e, token |-> t]
           IN Send(c, "delete_from_endpoint", a, delete_from_endpoint_request(a))

delete_endpoints(c, n) ==
    /\ pc[c] = "idle"
    /\ \E ks \in SeqsUpTo(EndpointIds, n), t \in Tokens :
           LET a == [kill_points |-> ks, token |-> t]
           IN Send(c, "delete_endpoints", a, delete_endpoints_request(a))

get_endpoints(c) ==
    /\ pc[c] = "idle"
    /\ \E t \in Tokens : Send(c, "get_endpoints", [token |-> t], get_endpoints_request([token |-> t]))

get_devices(c) ==
    /\ pc[c] = "idle"
    /\ \E t \in Tokens : Send(c, "get_devices", [token |-> t], get_devices_request([token |-> t]))

get_devices_by_location(c) ==
    /\ pc[c] = "idle"
    /\ \E t \in Tokens : Send(c, "get_devices_by_location", [token |-> t],
                              get_devices_by_location_request([token |-> t]))

get_locations(c) ==
    /\ pc[c] = "idle"
    /\ \E t \in Tokens : Send(c, "get_locations", [token |-> t],
                              get_locations_request([token |-> t]))

get_location_reports(c) ==
    /\ pc[c] = "idle"
    /\ \E t \in Tokens : Send(c, "get_location_reports", [token |-> t],
                              get_location_reports_request([token |-> t]))

print_version_done(c, n) ==
    /\ Waiting(c, "print_version")
    /\ \E r \in Responses("print_version", n) : Finish(c, r, print_version_result(r))
    /\ UNCHANGED svcEndpoints

get_token_done(c, n) ==
    /\ Waiting(c, "get_token")
    /\ \E r \in Responses("get_token", n) : Finish(c, r, get_token_result(r))
    /\ UNCHANGED svcEndpoints

add_devices_done(c, n) ==
    /\ Waiting(c, "add_devices")
    /\ \E r \in Responses("add_devices", n) : Finish(c, r, add_devices_result(r))
    /\ UNCHANGED svcEndpoints

create_endpoint_done(c, n) ==
    /\ Waiting(c, "create_endpoint")
    /\ \E r \in Responses("create_endpoint", n) : Finish(c, r, create_endpoint_result(r))
    /\ UNCHANGED svcEndpoints

create_oauth_endpoint_done(c, n) ==
    /\ Waiting(c, "create_oauth_endpoint")
    /\ \E r \in Responses("create_oauth_endpoint", n) : Finish(c, r, create_oauth_endpoint_result(r))
    /\ UNCHANGED svcEndpoints

assign_to_endpoint_done(c, n) ==
    /\ Waiting(c, "assign_to_endpoint")
    /\ \E r \in Responses("assign_to_endpoint", n) : Finish(c, r, assign_to_endpoint_result(r))
    /\ UNCHANGED svcEndpoints

delete_from_endpoint_done(c, n) ==
    /\ Waiting(c, "delete_from_endpoint")
    /\ \E r \in Responses("delete_from_endpoint", n) : Finish(c, r, delete_from_endpoint_result(r))
    /\ UNCHANGED svcEndpoints

delete_endpoints_done(c, n) ==
    /\ Waiting(c, "delete_endpoints")
    /\ \E r \in Responses("delete_endpoints", n) : Finish(c, r, delete_endpoints_result(r))
    /\ UNCHANGED svcEndpoints

get_endpoints_done(c, n) ==
    /\ Waiting(c, "get_endpoints")
    /\ \E r \in Responses("get_endpoints", n) : Finish(c, r, get_endpoints_result(r))
    /\ UNCHANGED svcEndpoints

get_devices_done(c, n) ==
    /\ Waiting(c, "get_devices")
    /\ \E r \in Responses("get_devices", n) : Finish(c, r, get_devices_result(r))
    /\ UNCHANGED svcEndpoints

get_devices_by_location_done(c, n) ==
    /\ Waiting(c, "get_devices_by_location")
    /\ \E r \in Responses("get_devices_by_location", n) : Finish(c, r, get_devices_by_location_result(r))
    /\ UNCHANGED svcEndpoints

get_locations_done(c, n) ==
    /\ Waiting(c, "get_locations")
    /\ \E r \in Responses("get_locations", n) : Finish(c, r, get_locations_result(r))
    /\ UNCHANGED svcEndpoints

get_location_reports_done(c, n) ==
    /\ Waiting(c, "get_location_reports")
    /\ \E r \in Responses("get_location_reports", n) : Finish(c, r, get_location_reports_result(r))
    /\ UNCHANGED svcEndpoints

\* requests raises (no connection, no answer): no function catches it.
TransportFailure(c) ==
    /\ pc[c] = "sent"
    /\ pc' = [pc EXCEPT ![c] = "done"]
    /\ outcome' = [outcome EXCEPT ![c] = Raised("ConnectionError", "requests")]
    /\ UNCHANGED <<base, op, args, req, nSent, resp, log, svcEndpoints>>

\* The caller has the outcome; the frame of the call is gone.
Return(c) ==
    /\ pc[c] = "done"
    /\ pc' = [pc EXCEPT ![c] = "idle"]
    /\ op' = [op EXCEPT ![c] = "none"]
    /\ args' = [args EXCEPT ![c] = NoArgs]
    /\ req' = [req EXCEPT ![c] = NoRequest]
    /\ nSent' = [nSent EXCEPT ![c] = 0]
    /\ resp' = [resp EXCEPT ![c] = NoResponse]
    /\ outcome' = [outcome EXCEPT ![c] = NoOutcome]
    /\ log' = [log EXCEPT ![c] = <<>>]
    /\ UNCHANGED <<base, svcEndpoints>>

\* One call site: calls follow one another.
Next ==
    \/ print_version("c1")
    \/ get_token("c1")
    \/ add_devices("c1", MaxLen)
    \/ create_endpoint("c1")
    \/ create_oauth_endpoint("c1")
    \/ assign_to_endpoint("c1", MaxLen)
    \/ delete_from_endpoint("c1", MaxLen)
    \/ delete_endpoints("c1", MaxLen)
    \/ get_endpoints("c1")
    \/ get_devices("c1")
    \/ get_devices_by_location("c1")
    \/ get_locations("c1")
    \/ get_location_reports("c1")
    \/ print_version_done("c1", MaxLen)
    \/ get_token_done("c1", MaxLen)
    \/ add_devices_done("c1", MaxLen)
    \/ create_endpoint_done("c1", MaxLen)
    \/ create_oauth_endpoint_done("c1", MaxLen)
    \/ assign_to_endpoint_done("c1", MaxLen)
    \/ delete_from_endpoint_done("c1", MaxLen)
    \/ delete_endpoints_done("c1", MaxLen)
    \/ get_endpoints_done("c1", MaxLen)
    \/ get_devices_done("c1", MaxLen)
    \/ get_devices_by_location_done("c1", MaxLen)
    \/ get_locations_done("c1", MaxLen)
    \/ get_location_reports_done("c1", MaxLen)
    \/ TransportFailure("c1")
    \/ Return("c1")

Spec == Init /\ [][Next]_vars

\* Lists are two elements shorter where two call sites multiply the states.
ConcLen == MaxLen - 2

\* Two call sites: the steps of their calls interleave.
NextConc ==
    \E c \in Callers :
        \/ print_version(c)
        \/ get_token(c)
        \/ add_devices(c, ConcLen)
        \/ create_endpoint(c)
        \/ create_oauth_endpoint(c)
        \/ assign_to_endpoint(c, ConcLen)
        \/ delete_from_endpoint(c, ConcLen)
        \/ delete_endpoints(c, ConcLen)
        \/ get_endpoints(c)
        \/ get_devices(c)
        \/ get_devices_by_location(c)
        \/ get_locations(c)
        \/ get_location_reports(c)
        \/ print_version_done(c, ConcLen)
        \/ get_token_done(c, ConcLen)
        \/ add_devices_done(c, ConcLen)
        \/ create_endpoint_done(c, ConcLen)
        \/ create_oauth_endpoint_done(c, ConcLen)
        \/ assign_to_endpoint_done(c, ConcLen)
        \/ delete_from_endpoint_done(c, ConcLen)
        \/ delete_endpoints_done(c, ConcLen)
        \/ get_endpoints_done(c, ConcLen)
        \/ get_devices_done(c, ConcLen)
        \/ get_devices_by_location_done(c, ConcLen)
        \/ get_locations_done(c, ConcLen)
        \/ get_location_reports_done(c, ConcLen)
        \/ TransportFailure(c)
        \/ Return(c)

SpecConc == Init /\ [][NextConc]_vars

(***************************************************************************)
(* A service that authenticates by the Authorization header.  It holds a   *)
(* set of endpoints, issues ValidToken for ValidSecret, and answers 401    *)
(* without the data to a request whose Authorization header is missing or  *)
(* carries another token.  It serves a request in one step.                *)
(***************************************************************************)
ValidToken == "t1"
ValidSecret == "s1"

Authenticated(r) ==
    /\ "Authorization" \in DOMAIN r.headers
    /\ r.headers["Authorization"] = Bearer(ValidToken)

Unauthorized == Response(401, BodyJson(PyDict([error |-> "x"])))
Ok(d) == Response(200, BodyJson(PyDict(d)))

\* The entries of l the service holds, each once, in the order of l.
Held(l) ==
    LET keep(i) == /\ l[i]["EndpointId"] \in svcEndpoints
                   /\ \A j \in 1..(i - 1) : l[j] # l[i]
        F[i \in 0..Len(l)] ==
            IF i = 0 THEN <<>>
            ELSE IF keep(i) THEN Append(F[i - 1], l[i]) ELSE F[i - 1]
    IN F[Len(l)]

Listings ==
    {l \in SeqsUpTo(EndpointIds, Cardinality(svcEndpoints)) :
        /\ Len(l) = Cardinality(svcEndpoints)
        /\ {l[i] : i \in 1..Len(l)} = svcEndpoints}

InitSvc ==
    /\ Init!1 /\ Init!2 /\ Init!3 /\ Init!4 /\ Init!5
    /\ Init!6 /\ Init!7 /\ Init!8 /\ Init!9
    /\ svcEndpoints \in SUBSET EndpointIds

get_token_served(c) ==
    /\ Waiting(c, "get_token")
    /\ LET r == IF req[c].params["client_secret"] = ValidSecret
                THEN Ok([access_token |-> ValidToken, token_type |-> "Bearer"])
                ELSE Unauthorized
       IN Finish(c, r, get_token_result(r))
    /\ UNCHANGED svcEndpoints

create_endpoint_served(c) ==
    /\ Waiting(c, "create_endpoint")
    /\ IF Authenticated(req[c])
       THEN \E e \in EndpointIds \ svcEndpoints :
                LET r == Ok([EndpointId |-> e, URL |-> req[c].params["URL"]])
                IN /\ Finish(c, r, create_endpoint_result(r))
                   /\ svcEndpoints' = svcEndpoints \cup {e}
       ELSE /\ Finish(c, Unauthorized, create_endpoint_result(Unauthorized))
            /\ UNCHANGED svcEndpoints

delete_endpoints_served(c) ==
    /\ Waiting(c, "delete_endpoints")
    /\ IF Authenticated(req[c])
       THEN LET gone == Held(req[c].params["Endpoints"])
                r == Ok([EndpointsDeleted |-> gone])
            IN /\ Finish(c, r, delete_endpoints_result(r))
               /\ svcEndpoints' = svcEndpoints \ {gone[i]["EndpointId"] : i \in 1..Len(gone)}
       ELSE /\ Finish(c, Unauthorized, delete_endpoints_result(Unauthorized))
            /\ UNCHANGED svcEndpoints

get_endpoints_served(c) ==
    /\ Waiting(c, "get_endpoints")
    /\ IF Authenticated(req[c])
       THEN \E l \in Listings :
                LET r == Ok([Endpoints |-> [i \in 1..Len(l) |->
                                [EndpointId |-> l[i], URL |-> "u1", DataType |-> "json"]]])
                IN Finish(c, r, get_endpoints_result(r))
       ELSE Finish(c, Unauthorized, get_endpoints_result(Unauthorized))
    /\ UNCHANGED svcEndpoints

\* Two call sites against the authenticating service.
NextSvc ==
    \E c \in Callers :
        \/ get_token(c)
        \/ create_endpoint(c)
        \/ delete_endpoints(c, MaxLen)
        \/ get_endpoints(c)
        \/ get_token_served(c)
        \/ create_endpoint_served(c)
        \/ delete_endpoints_served(c)
        \/ get_endpoints_served(c)
        \/ TransportFailure(c)
        \/ Return(c)

SpecSvc == InitSvc /\ [][NextSvc]_vars

(***************************************************************************)
(* Properties.                                                             *)
(***************************************************************************)
Done(c) == pc[c] = "done"

\* The call of c has ended on a response (not before sending, not on a
\* transport failure).
Answered(c) == Done(c) /\ resp[c].body.t # "none"

IsDict(r) == HasJson(r) /\ r.body.j.t = "dict"

Range(l) == {l[i] : i \in 1..Len(l)}

\* The functions that read a named top-level key of the response.
KeyedOps == {"get_token", "add_devices", "create_endpoint", "create_oauth_endpoint",
             "assign_to_endpoint", "delete_from_endpoint", "delete_endpoints",
             "get_endpoints", "get_devices"}

AuthenticatedOps == (KeyedOps \cup LocationOps) \ {"get_token"}

\* The response is a JSON object without the key the function reads.
MissingKey(c) ==
    /\ Answered(c)
    /\ IsDict(resp[c])
    /\ ExpectedKey(op[c]) \notin DOMAIN resp[c].body.j.d

\* C1: when the JSON response lacks the expected top-level key, the call
\* ends in an error that is no KeyError or TypeError of the lookup.
C1_MissingDataIsDistinguishable ==
    \A c \in Callers :
        (op[c] \in KeyedOps /\ MissingKey(c)) =>
            /\ outcome[c].kind = "raised"
            /\ outcome[c].exc \notin {"KeyError", "TypeError"}

\* C2: get_token answered without access_token fails with an authentication
\* error, and returns a token only when the response carries access_token.
C2_RejectedCredentialsFailAsAuthentication ==
    \A c \in Callers :
        (Answered(c) /\ op[c] = "get_token") =>
            /\ MissingKey(c) =>
                  (outcome[c].kind = "raised" /\ outcome[c].exc = "AuthenticationError")
            /\ outcome[c].kind = "returned" =>
                  (/\ IsDict(resp[c])
                   /\ "access_token" \in DOMAIN resp[c].body.j.d
                   /\ outcome[c].value = PyStr(resp[c].body.j.d["access_token"]))

\* The response is well-formed JSON holding the data function o extracts.
WellFormed(o, r) ==
    /\ HasJson(r)
    /\ CASE o \in LocationOps ->
                r.body.j.t = "list" /\ ~LacksKey(r.body.j.l, "LocationName")
         [] o \in {"add_devices", "assign_to_endpoint", "delete_from_endpoint",
                   "get_devices"} ->
                /\ IsDict(r) /\ ExpectedKey(o) \in DOMAIN r.body.j.d
                /\ ~LacksKey(r.body.j.d[ExpectedKey(o)], "DeviceId")
         [] o \in {"delete_endpoints", "get_endpoints"} ->
                /\ IsDict(r) /\ ExpectedKey(o) \in DOMAIN r.body.j.d
                /\ ~LacksKey(r.body.j.d[ExpectedKey(o)], "EndpointId")
         [] OTHER -> IsDict(r) /\ ExpectedKey(o) \in DOMAIN r.body.j.d

\* The value function o is to return on a well-formed response r.
Extracted(o, r) ==
    CASE o \in LocationOps -> r.body.j
      [] o \in {"print_version", "get_token"} -> PyStr(r.body.j.d[ExpectedKey(o)])
      [] o \in {"create_endpoint", "create_oauth_endpoint"} -> r.body.j
      [] o \in {"add_devices", "assign_to_endpoint", "delete_from_endpoint"} ->
            PyList(Column(r.body.j.d[ExpectedKey(o)], "DeviceId"))
      [] o = "delete_endpoints" ->
            PyList(Column(r.body.j.d[ExpectedKey(o)], "EndpointId"))
      [] OTHER -> PyList(r.body.j.d[ExpectedKey(o)])

\* C3: on a well-formed response holding the expected data every function
\* returns, without raising, the value it extracts from the response.
C3_ReturnsExtractedValue ==
    \A c \in Callers :
        (Answered(c) /\ WellFormed(op[c], resp[c])) =>
            outcome[c] = Returned(Extracted(op[c], resp[c]))

\* add_devices has returned a list to call site c.
AddDevicesReturned(c) ==
    /\ Done(c) /\ op[c] = "add_devices"
    /\ outcome[c].kind = "returned" /\ outcome[c].value.t = "list"

WithinSubmitted(l, ids) == Len(l) <= Len(ids) /\ Range(l) \subseteq Range(ids)

HasSent(c) == nSent[c] = 1

\* C5: every authenticated function sends 'Authorization: Bearer <token>'
\* as a request header, and not as a query parameter.
C5_TokenInAuthorizationHeader ==
    \A c \in Callers :
        (HasSent(c) /\ op[c] \in AuthenticatedOps) =>
            /\ "Authorization" \in DOMAIN req[c].headers
            /\ req[c].headers["Authorization"] = Bearer(args[c].token)
            /\ "Authorization" \notin DOMAIN req[c].params

\* The service answers the request of c in this step.
Served(c) == pc[c] = "sent" /\ pc'[c] = "done" /\ resp'[c].body.t # "none"

\* C6: against the service that authenticates by the Authorization header,
\* create_endpoint with the valid token returns the EndpointId of an endpoint
\* the service then holds, and delete_endpoints([e]) with the valid token for
\* an endpoint e the service holds returns [e] and leaves the service without e.
C6_CreateThenDeleteRoundTrip ==
    [][\A c \in Callers :
          /\ (Served(c) /\ op[c] = "create_endpoint" /\ args[c].token = ValidToken) =>
                /\ outcome'[c].kind = "returned"
                /\ outcome'[c].value.t = "dict"
                /\ "EndpointId" \in DOMAIN outcome'[c].value.d
                /\ outcome'[c].value.d["EndpointId"] \in svcEndpoints'
          /\ (/\ Served(c) /\ op[c] = "delete_endpoints" /\ args[c].token = ValidToken
              /\ Len(args[c].kill_points) = 1
              /\ args[c].kill_points[1] \in svcEndpoints) =>
                /\ outcome'[c] = Returned(PyList(args[c].kill_points))
                /\ args[c].kill_points[1] \notin svcEndpoints']_vars

Without(d, key) == [k \in DOMAIN d \ {key} |-> d[k]]

\* C7: create_oauth_endpoint answered with EndpointError and no EndpointId
\* ends otherwise than on the same answer without EndpointError.
C7_AuthUrlRejectionIsDistinct ==
    \A c \in Callers :
        (/\ Answered(c) /\ op[c] = "create_oauth_endpoint" /\ MissingKey(c)
         /\ "EndpointError" \in DOMAIN resp[c].body.j.d) =>
            LET plain == Response(resp[c].status_code,
                             BodyJson(PyDict(Without(resp[c].body.j.d, "EndpointError"))))
            IN outcome[c] # create_oauth_endpoint_result(plain).outcome

\* The Authorization values a request carries, in its headers or parameters.
SentTokens(r) ==
    {r.headers[k] : k \in DOMAIN r.headers \cap {"Authorization"}}
    \cup {r.params[k] : k \in DOMAIN r.params \cap {"Authorization"}}

\* The request of c carries the token and the arguments of the call of c.
CarriesOwn(c) ==
    LET a == args[c]
        p == req[c].params
    IN /\ op[c] \in AuthenticatedOps => SentTokens(req[c]) = {Bearer(a.token)}
       /\ op[c] \in {"print_version", "get_token"} => SentTokens(req[c]) = {}
       /\ op[c] = "get_token" =>
             p["client_id"] = a.client_id /\ p["client_secret"] = a.client_secret
       /\ op[c] = "add_devices" =>
             /\ Column(p["devices"], "DeviceId") = a.new_ids
             /\ \A i \in 1..Len(a.new_ids) :
                    p["devices"][i]["ActivationCode"] = a.new_acs[i]
       /\ op[c] \in {"create_endpoint", "create_oauth_endpoint"} => p["URL"] = a.devv_url
       /\ op[c] = "create_oauth_endpoint" =>
             /\ p["AuthUrl"] = a.auth_url
             /\ p["AuthTokenType"] = a.AuthTokenType
             /\ p["AuthTokenKey"] = a.AuthTokenKey
       /\ op[c] \in {"assign_to_endpoint", "delete_from_endpoint"} =>
             /\ p["EndpointId"] = a.endpoint_id
             /\ Column(p["Devices"], "DeviceId") = a.device_ids
       /\ op[c] = "delete_endpoints" =>
             Column(p["Endpoints"], "EndpointId") = a.kill_points

Frame(c) == <<pc[c], op[c], args[c], req[c], nSent[c], resp[c], outcome[c], log[c]>>

\* C8: with the calls of two call sites interleaved, base keeps its value,
\* a step of one call leaves the frame of the other call as it is, and every
\* request goes to base and carries the token and arguments of its own call.
C8_NoInterference ==
    /\ [](/\ base = BaseUrl
          /\ \A c \in Callers : HasSent(c) => (req[c].url[1] = BaseUrl /\ CarriesOwn(c)))
    /\ [][\A c \in Callers : \A d \in Callers \ {c} :
              Frame(c)' # Frame(c) => Frame(d)' = Frame(d)]_vars

\* Both call sites are blocked in the HTTP library, with different tokens.
C8_Witness ==
    /\ pc["c1"] = "sent" /\ pc["c2"] = "sent"
    /\ op["c1"] = "get_endpoints" /\ op["c2"] = "assign_to_endpoint"
    /\ args["c1"].token # args["c2"].token

\* C9 as claimed: every call has sent exactly one request when it ends.
C9_ExactlyOneRequest ==
    \A c \in Callers : Done(c) => nSent[c] = 1

\* add_devices raised on the lists before building its request.
FailedOnLists(c) ==
    /\ op[c] = "add_devices"
    /\ Len(args[c].new_acs) < Len(args[c].new_ids)
    /\ outcome[c] = Raised("IndexError", "new_acs")

\* C9 as amended: a call never sends a second request, whatever the response;
\* it is blocked on its one request or has ended after that request, except
\* that add_devices with new_acs shorter than new_ids ends with no request sent.
C9_AtMostOneRequest ==
    \A c \in Callers :
        /\ nSent[c] <= 1
        /\ pc[c] = "sent" => nSent[c] = 1
        /\ Answered(c) => nSent[c] = 1
        /\ Done(c) => (nSent[c] = 1 \/ (nSent[c] = 0 /\ FailedOnLists(c)))

\* A call ended on a response without the expected key, after one request.
C9_Witness ==
    \E c \in Callers :
        /\ MissingKey(c) /\ outcome[c].exc = "KeyError" /\ nSent[c] = 1

\* C10: add_devices sends len(new_ids) device entries, the i-th pairing
\* new_ids[i] with new_acs[i]; with new_acs shorter it raises before any
\* request; with new_acs longer the request is sent without the surplus codes.
C10_PairsByIndex ==
    \A c \in Callers :
        (op[c] = "add_devices" /\ pc[c] # "idle") =>
            IF Len(args[c].new_acs) < Len(args[c].new_ids)
            THEN /\ Done(c) /\ nSent[c] = 0 /\ req[c].method = "none"
                 /\ outcome[c].kind = "raised" /\ outcome[c].exc = "IndexError"
            ELSE /\ nSent[c] = 1 /\ req[c].method = "POST"
                 /\ Len(req[c].params["devices"]) = Len(args[c].new_ids)
                 /\ \A i \in 1..Len(args[c].new_ids) :
                        req[c].params["devices"][i] =
                            [DeviceId |-> args[c].new_ids[i],
                             ActivationCode |-> args[c].new_acs[i]]

\* add_devices was called with one device and two different activation codes.
C10_Witness ==
    \E c \in Callers :
        /\ op[c] = "add_devices" /\ pc[c] = "sent"
        /\ Len(args[c].new_ids) = 1 /\ Len(args[c].new_acs) = 2
        /\ args[c].new_acs[1] # args[c].new_acs[2]

====
